---- MODULE Spec2Model ----
(***************************************************************************)
(* A model of feco3's streaming decode pipeline:                           *)
(*   - the record decoders  line.rs `parse`  and  parser.rs                *)
(*     `RowsParser::parse_csv_record`  with their field coercion;          *)
(*   - the lazy orchestrator  fec.rs `FecFile`  (get_header, get_cover,    *)
(*     next_record) over a byte source that is handed from the             *)
(*     orchestrator to the tokenizer.                                      *)
(*   - line.rs `Line::get_value` and the parser.rs `Parser` orchestrator   *)
(*     (parse_header, next_line).                                          *)
(* The header decoder (crate::header), the cover decoder (crate::cover)    *)
(* and the schema registry (crate::schemas) are not part of the sources;   *)
(* they are modelled from the design document and marked as such.          *)
(***************************************************************************)
EXTENDS Integers, Sequences, FiniteSets, TLC

VARIABLES
    source,      \* the byte source's content: a sequence of lines
    registry,    \* the schema registry's table (read-only)
    reader,      \* FecFile.reader      : Option<Box<dyn Read>>
    header,      \* FecFile.header      : Option<Header>
    cover,       \* FecFile.cover       : Option<Cover>
    sep,         \* FecFile.sep         : Option<Sep>
    csv_parser,  \* FecFile.csv_parser  : Option<CsvParser<..>>
    parser,      \* a parser.rs Parser: reader, header_parsing, row_parser
    ret,         \* the last public call and what it returned
    hist,        \* observations of the calls made so far
    dec_in,      \* input of the record decoders: version and raw record
    dec_out      \* which decoder ran on dec_in, and its result

vars == <<source, registry, reader, header, cover, sep, csv_parser, parser, ret,
          hist, dec_in, dec_out>>

-----------------------------------------------------------------------------
(* Bounds of the model *)

\* most lines a byte source holds
MaxLines == 4
\* most raw fields a raw record given to the decoders holds (type code included)
MaxRawLen == 4
\* most fields a schema of the decoders' registry declares
MaxSchemaLen == 2

-----------------------------------------------------------------------------
(* Option and Result *)

None == [tag |-> "None"]
Some(x) == [tag |-> "Some", v |-> x]
Ok(x) == [tag |-> "Ok", v |-> x]
Err(e) == [tag |-> "Err", e |-> e]
Unit == [tag |-> "Unit"]

IsSome(o) == o.tag = "Some"
IsNone(o) == o.tag = "None"
IsOk(r) == r.tag = "Ok"
IsErr(r) == r.tag = "Err"

-----------------------------------------------------------------------------
(* Values and schemas: line.rs / form.rs *)

ValueType == {"String", "Integer", "Float", "Date", "Boolean"}

FieldSchema(name, typ) == [name |-> name, typ |-> typ]

LineSchema(code, fields) == [code |-> code, fields |-> fields]

\* str::parse::<i64>: the texts of the model that are decimal integers
I64Text == ("7" :> 7) @@ ("-3" :> -3)

\* str::parse::<f64>: the texts of the model that are floats, in tenths
F64Text == ("7" :> 70) @@ ("-3" :> -30) @@ ("1.5" :> 15)

\* str::parse::<bool>: exactly "true" and "false"
BoolText == ("true" :> TRUE) @@ ("false" :> FALSE)

parse_i64(s) ==
    IF s \in DOMAIN I64Text THEN Ok(I64Text[s]) ELSE Err(<<"invalid digit found in string">>)

parse_f64(s) ==
    IF s \in DOMAIN F64Text THEN Ok(F64Text[s]) ELSE Err(<<"invalid float literal">>)

parse_bool(s) ==
    IF s \in DOMAIN BoolText
    THEN Ok(BoolText[s])
    ELSE Err(<<"provided string was not true or false">>)

\* The field schema used when the schema has none at a position.
default_field_schema == FieldSchema("extra", "String")

\* Option::unwrap_or(&default_field_schema)
unwrap_or_default(field_schema) ==
    IF IsSome(field_schema) THEN field_schema.v ELSE default_field_schema

\* A parsed number or boolean wrapped as the Value of its type, or the error.
typed(tag, parsed) == IF IsErr(parsed) THEN parsed ELSE Ok([tag |-> tag, x |-> parsed.v])

\* The match on field_schema.typ: the typed value of a text, or the parse error.
coerce(s, typ) ==
    CASE typ = "String" -> Ok([tag |-> "String", x |-> s])
      [] typ = "Integer" -> typed("Integer", parse_i64(s))
      [] typ = "Float" -> typed("Float", parse_f64(s))
      [] typ = "Date" -> Ok([tag |-> "Date", x |-> s])
      [] typ = "Boolean" -> typed("Boolean", parse_bool(s))

\* line.rs parse_raw_field_val: Result<Value, String>
line_parse_raw_field_val(raw, field_schema) ==
    coerce(raw, unwrap_or_default(field_schema).typ)

\* Iterator::next on a slice iterator at position i (1-based, i = items taken + 1)
iter_next(seq, i) == IF i <= Len(seq) THEN Some(seq[i]) ELSE None

-----------------------------------------------------------------------------
(* The schema registry: lookup(version, code) -> LineSchema | NotFound *)

lookup_schema(version, code) ==
    IF <<version, code>> \in DOMAIN registry
    THEN Ok(registry[<<version, code>>])
    ELSE Err(<<"SchemaError", version, code>>)

-----------------------------------------------------------------------------
(* line.rs: parse *)

\* One turn of the loop of parse (lines 107-109) pushed v, or failed with it.
RECURSIVE line_parse_loop(_, _, _, _, _)
line_parse_push(raw, i, schema_fields, j, fields, v) ==
    IF IsErr(v)
    THEN v
    ELSE line_parse_loop(raw, i + 1, schema_fields, j + 1, Append(fields, v.v))

\* A loop that rejects a raw value the schema has no field for.
line_parse_loop_strict(raw, i, schema_fields, j, fields) ==
    IF i > Len(raw)
    THEN Ok(fields)
    ELSE IF IsNone(iter_next(schema_fields, j))
    THEN Err(<<"too many fields">>)
    ELSE line_parse_push(raw, i, schema_fields, j, fields,
                         line_parse_raw_field_val(raw[i], iter_next(schema_fields, j)))

\* The loop of parse (lines 107-109): raw values from position i on, paired in
\* lock-step with the schema fields from position j on; the first failing
\* coercion ends the loop with its error.
line_parse_loop(raw, i, schema_fields, j, fields) ==
    IF i > Len(raw)
    THEN Ok(fields)
    ELSE line_parse_push(raw, i, schema_fields, j, fields,
                         line_parse_raw_field_val(raw[i], iter_next(schema_fields, j)))

\* A decoder that fills the schema fields a short record lacks with empty Strings.
line_parse_finish_padded(form_schema, fields) ==
    IF IsErr(fields)
    THEN fields
    ELSE Ok([schema |-> form_schema,
             values |-> fields.v \o
                 [i \in 1..(Len(form_schema.fields) + 1 - Len(fields.v)) |->
                     [tag |-> "String", x |-> ""]]])

\* The end of parse (lines 110-117): the Line of the decoded values.
line_parse_finish(form_schema, fields) ==
    IF IsErr(fields)
    THEN fields
    ELSE Ok([schema |-> form_schema, values |-> fields.v])

\* parse after its lookup (lines 103-109): the type code is pushed first, as a
\* String; then the loop runs on the values after it.
line_parse_fields(raw, form_schema, first) ==
    IF IsErr(form_schema)
    THEN form_schema
    ELSE IF IsErr(first)
         THEN first
         ELSE line_parse_finish(form_schema.v,
                                line_parse_loop(raw, 2, form_schema.v.fields, 1,
                                                <<first.v>>))

\* parse(fec_version, raw): Result<Line, String>
parse(fec_version, raw) ==
    IF Len(raw) = 0
    THEN Err(<<"No form name">>)
    ELSE line_parse_fields(raw, lookup_schema(fec_version, raw[1]),
                           line_parse_raw_field_val(raw[1], None))

-----------------------------------------------------------------------------
(* line.rs: Line::get_value *)

\* Iterator::position: the 0-based index of the first schema field named
\* field_name, or None.
position(fields, field_name) ==
    IF \E j \in 1..Len(fields) : fields[j].name = field_name
    THEN Some((CHOOSE j \in 1..Len(fields) :
                  /\ fields[j].name = field_name
                  /\ \A k \in 1..(j - 1) : fields[k].name # field_name) - 1)
    ELSE None

\* slice::get with a 0-based index
vec_get(values, index) ==
    IF index < Len(values) THEN Some(values[index + 1]) ELSE None

\* get_value after its `?` on the position (line 58)
get_value_at(self, field_index) ==
    IF IsNone(field_index) THEN None ELSE vec_get(self.values, field_index.v)

\* Line::get_value(&self, field_name): Option<&Value>
get_value(self, field_name) ==
    get_value_at(self, position(self.schema.fields, field_name))

-----------------------------------------------------------------------------
(* parser.rs: RowsParser::parse_csv_record and parse_raw_field_val *)

\* Field texts that are not valid UTF-8; every other text of the model is.
InvalidUtf8 == {"<ff>"}

\* String::from_utf8: fails on invalid bytes
from_utf8(bytes) ==
    IF bytes \in InvalidUtf8 THEN Err(<<"invalid utf-8 sequence">>) ELSE Ok(bytes)

\* String::from_utf8_lossy: invalid bytes become the replacement character
from_utf8_lossy(bytes) == IF bytes \in InvalidUtf8 THEN "<fffd>" ELSE bytes

\* The Field of a coerced value (lines 135-138), or the coercion's error.
parser_field(name, parsed_val) ==
    IF IsErr(parsed_val)
    THEN parsed_val
    ELSE Ok([name |-> name, value |-> parsed_val.v])

\* parser.rs parse_raw_field_val: Result<Field, String>
parser_parse_raw_field_val(raw_value, field_schema) ==
    parser_field(unwrap_or_default(field_schema).name,
                 coerce(from_utf8_lossy(raw_value), unwrap_or_default(field_schema).typ))

\* One turn of the loop of parse_csv_record (lines 95-97) pushed f, or failed.
RECURSIVE csv_parse_loop(_, _, _, _, _)
csv_parse_push(record, i, schema_fields, j, fields, f) ==
    IF IsErr(f)
    THEN f
    ELSE csv_parse_loop(record, i + 1, schema_fields, j + 1, Append(fields, f.v))

\* The loop of parse_csv_record (lines 95-97).
csv_parse_loop(record, i, schema_fields, j, fields) ==
    IF i > Len(record)
    THEN Ok(fields)
    ELSE csv_parse_push(record, i, schema_fields, j, fields,
                        parser_parse_raw_field_val(record[i], iter_next(schema_fields, j)))

\* The end of parse_csv_record (lines 98-105): the FormLine of the fields.
csv_parse_finish(form_schema, fields) ==
    IF IsErr(fields)
    THEN fields
    ELSE Ok([form_schema |-> form_schema, fields |-> fields.v])

\* parse_csv_record after its lookup (lines 93-97): the loop runs on the
\* values after the form name, which is not pushed.
csv_parse_fields(record, form_schema) ==
    IF IsErr(form_schema)
    THEN form_schema
    ELSE csv_parse_finish(form_schema.v,
                          csv_parse_loop(record, 2, form_schema.v.fields, 1, <<>>))

\* parse_csv_record once the form name is text (lines 91-92)
csv_parse_lookup(version, record, form_name_str) ==
    IF IsErr(form_name_str)
    THEN form_name_str
    ELSE csv_parse_fields(record, lookup_schema(version, form_name_str.v))

\* RowsParser::parse_csv_record(&self, record): Result<FormLine, String>
parse_csv_record(version, record) ==
    IF Len(record) = 0
    THEN Err(<<"No form name">>)
    ELSE csv_parse_lookup(version, record, from_utf8(record[1]))

-----------------------------------------------------------------------------
(* The byte source and the tokenizer *)

\* The two body separators (Sep), as the chunk of a line each one is.
Comma == ","
Ascii28 == "<1c>"

\* The lines a byte source of the model is made of. A line is a sequence of
\* chunks of text; "," and "<1c>" are the chunks that may act as separators.
Lines ==
    { <<"HDR", ",", "5.0">>,      \* header of a version before the threshold
      <<"HDR", ",", "8.3">>,      \* header of a version after the threshold
      <<"F3", ",", "7">>,         \* comma dialect: a cover record
      <<"SA", ",", "7">>,         \* comma dialect: a well-formed detail record
      <<"SA", ",", "true">>,      \* comma dialect: an invalid integer field
      <<"F3", "<1c>", "7">> }     \* control-byte dialect: a cover record

\* All sequences over S of length n
RECURSIVE SeqsOfLen(_, _)
SeqsOfLen(S, n) ==
    IF n = 0
    THEN {<<>>}
    ELSE {Append(q, x) : q \in SeqsOfLen(S, n - 1), x \in S}

\* All sequences over S of length at most n
SeqsUpTo(S, n) == UNION {SeqsOfLen(S, k) : k \in 0..n}

\* The byte sources of the model
Sources == SeqsUpTo(Lines, MaxLines)

\* A Read over `source` that has consumed pos of its lines.
Reader(pos) == [pos |-> pos]

\* The split of one line into fields at a delimiter, without quoting: a
\* field is the text between delimiters.
RECURSIVE split(_, _, _, _, _)
split(line, i, delim, cur, out) ==
    IF i > Len(line)
    THEN Append(out, cur)
    ELSE IF line[i] = delim
         THEN split(line, i + 1, delim, "", Append(out, cur))
         ELSE split(line, i + 1, delim, cur \o line[i], out)

\* The csv reader's quote character (the builder leaves quoting enabled)
Quote == "\""

\* The csv reader's split of one line into raw fields at the delimiter
\* (flexible width, no header row, quoting enabled). mode is where the reader
\* is: at the "start" of a field, in an unquoted "field", in a "quoted" field,
\* or just after a quote that may have "closed" a quoted field. A quote at the
\* start of a field opens a quoted field, in which the delimiter is text; a
\* doubled quote in it is one quote; a quote inside an unquoted field is text.
RECURSIVE csv_split(_, _, _, _, _, _)
csv_split(line, i, delim, mode, cur, out) ==
    IF i > Len(line)
    THEN Append(out, cur)
    ELSE CASE mode = "start" /\ line[i] = Quote ->
                csv_split(line, i + 1, delim, "quoted", cur, out)
           [] mode = "quoted" /\ line[i] = Quote ->
                csv_split(line, i + 1, delim, "closed", cur, out)
           [] mode = "quoted" /\ line[i] # Quote ->
                csv_split(line, i + 1, delim, "quoted", cur \o line[i], out)
           [] mode = "closed" /\ line[i] = Quote ->
                csv_split(line, i + 1, delim, "quoted", cur \o Quote, out)
           [] mode # "quoted" /\ line[i] = delim ->
                csv_split(line, i + 1, delim, "start", "", Append(out, cur))
           [] OTHER ->
                csv_split(line, i + 1, delim, "field", cur \o line[i], out)

\* RowsParser::new: the tokenizer over the rest of the source, with the
\* delimiter of the dialect.
RowsParser_new(src, version, use_ascii28) ==
    [version |-> version,
     delim |-> IF use_ascii28 THEN Ascii28 ELSE Comma,
     records |-> src]

\* self.records.next(): the next raw record, or None at the end of the input.
\* Gives the advanced iterator and the raw record.
records_next(p) ==
    IF p.records.pos < Len(source)
    THEN [records |-> Reader(p.records.pos + 1),
          raw |-> Some(csv_split(source[p.records.pos + 1], 1, p.delim, "start", "", <<>>))]
    ELSE [records |-> p.records, raw |-> None]

\* RowsParser::next_line once the raw record is read (lines 77-82)
next_line_decode(p, n) ==
    IF IsNone(n.raw)
    THEN [p |-> [p EXCEPT !.records = n.records], res |-> None]
    ELSE [p |-> [p EXCEPT !.records = n.records],
          res |-> Some(parse_csv_record(p.version, n.raw.v))]

\* RowsParser::next_line: Option<Result<FormLine, String>>, with the parser
\* as the call leaves it.
next_line(p) == next_line_decode(p, records_next(p))

-----------------------------------------------------------------------------
(* The header decoder and the cover decoder (crate::header, crate::cover) *)

\* The delimiter of the header line's own micro-format
HeaderDelim == ","

\* The format-version table: the separator each recognized version selects
VersionSep == ("5.0" :> Comma) @@ ("8.3" :> Ascii28)

\* The record type code of the cover record
CoverCode == "F3"

\* The header line's fields decoded: Result<HeaderParsing, HeaderParseError>
header_decode(fields) ==
    IF Len(fields) # 2 \/ fields[1] # "HDR"
    THEN Err(<<"HeaderParseError", "malformed line">>)
    ELSE IF fields[2] \notin DOMAIN VersionSep
         THEN Err(<<"HeaderParseError", "unknown version">>)
         ELSE Ok([header |-> [fec_version |-> fields[2]], sep |-> VersionSep[fields[2]]])

\* header::parse_header(reader): reads one logical line from the reader and
\* decodes it; gives the reader as the read leaves it and
\* Result<HeaderParsing, HeaderParseError>.
header_parse_header(rd) ==
    IF rd.pos >= Len(source)
    THEN [reader |-> rd, res |-> Err(<<"HeaderParseError", "no header line">>)]
    ELSE [reader |-> Reader(rd.pos + 1),
          res |-> header_decode(split(source[rd.pos + 1], 1, HeaderDelim, "", <<>>))]

\* cover::parse_cover_record(&record): Result<Cover, String>
parse_cover_record(record) ==
    IF record.form_schema.code = CoverCode
    THEN Ok([form_type |-> record.form_schema.code, fields |-> record.fields])
    ELSE Err(<<"not a cover record">>)

\* CsvParser::new(reader, fec_version, &sep)
CsvParser_new(rd, fec_version, s) == RowsParser_new(rd, fec_version, s = Ascii28)

\* CsvParser::next_record
CsvParser_next_record(p) == next_line(p)

-----------------------------------------------------------------------------
(* fec.rs: FecFile *)
(* Each method gives the FecFile as the call leaves it (self) and what the  *)
(* call returns (res).                                                      *)

Panic(msg) == [tag |-> "Panic", msg |-> msg]
IsPanic(r) == r.tag = "Panic"

\* HeaderParseError::to_string
to_string(e) == <<"String">> \o e

\* FecFile::from_reader
from_reader(rd) ==
    [reader |-> Some(rd), header |-> None, cover |-> None, sep |-> None,
     csv_parser |-> None]

\* A parse_header that caches the header and not the separator.
parse_header_store_nosep(self, header_parsing) ==
    IF IsErr(header_parsing.res)
    THEN [self |-> [self EXCEPT !.reader = Some(header_parsing.reader)],
          res |-> header_parsing.res]
    ELSE [self |-> [self EXCEPT !.reader = Some(header_parsing.reader),
                                !.header = Some(header_parsing.res.v.header)],
          res |-> Ok(Unit)]

\* parse_header after the header decoder ran (lines 69-72): `?` returns its
\* error, leaving the reader as the read left it; else header and sep are set.
parse_header_store(self, header_parsing) ==
    IF IsErr(header_parsing.res)
    THEN [self |-> [self EXCEPT !.reader = Some(header_parsing.reader)],
          res |-> header_parsing.res]
    ELSE [self |-> [self EXCEPT !.reader = Some(header_parsing.reader),
                                !.header = Some(header_parsing.res.v.header),
                                !.sep = Some(header_parsing.res.v.sep)],
          res |-> Ok(Unit)]

\* A parse_header without the early return on a cached header
parse_header_nocache(self) ==
    IF IsNone(self.reader)
    THEN [self |-> self, res |-> Panic("No reader")]
    ELSE parse_header_store(self, header_parse_header(self.reader.v))

\* FecFile::parse_header(&mut self): Result<(), HeaderParseError>
parse_header(self) ==
    IF IsSome(self.header)
    THEN [self |-> self, res |-> Ok(Unit)]
    ELSE IF IsNone(self.reader)
         THEN [self |-> self, res |-> Panic("No reader")]
         ELSE parse_header_store(self, header_parse_header(self.reader.v))

\* A hand-off that builds the tokenizer over the reader and leaves the reader
\* in place.
make_csv_parser_handoff_shared(h) ==
    IF IsPanic(h.res)
    THEN h
    ELSE IF IsErr(h.res)
    THEN [self |-> h.self, res |-> Err(to_string(h.res.e))]
    ELSE IF IsNone(h.self.header)
    THEN [self |-> h.self, res |-> Panic("No header")]
    ELSE IF IsNone(h.self.sep)
    THEN [self |-> h.self, res |-> Panic("No sep")]
    ELSE IF IsSome(h.self.csv_parser)
    THEN [self |-> h.self, res |-> Ok(Unit)]
    ELSE IF IsNone(h.self.reader)
    THEN [self |-> h.self, res |-> Err(<<"No reader">>)]
    ELSE [self |-> [h.self EXCEPT
                       !.csv_parser = Some(CsvParser_new(h.self.reader.v,
                                                         h.self.header.v.fec_version,
                                                         h.self.sep.v))],
          res |-> Ok(Unit)]

\* make_csv_parser after its parse_header call (lines 94-102)
make_csv_parser_handoff(h) ==
    IF IsPanic(h.res)
    THEN h
    ELSE IF IsErr(h.res)
    THEN [self |-> h.self, res |-> Err(to_string(h.res.e))]
    ELSE IF IsNone(h.self.header)
    THEN [self |-> h.self, res |-> Panic("No header")]
    ELSE IF IsNone(h.self.sep)
    THEN [self |-> h.self, res |-> Panic("No sep")]
    ELSE IF IsSome(h.self.csv_parser)
    THEN [self |-> h.self, res |-> Ok(Unit)]
    ELSE IF IsNone(h.self.reader)
    THEN [self |-> h.self, res |-> Err(<<"No reader">>)]
    ELSE [self |-> [h.self EXCEPT
                       !.reader = None,
                       !.csv_parser = Some(CsvParser_new(h.self.reader.v,
                                                         h.self.header.v.fec_version,
                                                         h.self.sep.v))],
          res |-> Ok(Unit)]

\* FecFile::make_csv_parser(&mut self): Result<(), String>
make_csv_parser(self) ==
    IF IsSome(self.csv_parser)
    THEN [self |-> self, res |-> Ok(Unit)]
    ELSE make_csv_parser_handoff(parse_header(self))

\* A parse_cover that decodes the cover and does not keep it.
parse_cover_store_forget(self, c) ==
    IF IsErr(c)
    THEN [self |-> self, res |-> c]
    ELSE [self |-> self, res |-> Ok(Unit)]

\* parse_cover's store of the cover (line 86)
parse_cover_store(self, c) ==
    IF IsErr(c)
    THEN [self |-> self, res |-> c]
    ELSE [self |-> [self EXCEPT !.cover = Some(c.v)], res |-> Ok(Unit)]

\* A parse_cover that takes a body without records for a body without cover
\* and goes on.
parse_cover_match_lenient(self, n) ==
    IF IsNone(n.res)
    THEN [self |-> [self EXCEPT !.csv_parser = Some(n.p)], res |-> Ok(Unit)]
    ELSE IF IsErr(n.res.v)
    THEN [self |-> [self EXCEPT !.csv_parser = Some(n.p)], res |-> n.res.v]
    ELSE parse_cover_store([self EXCEPT !.csv_parser = Some(n.p)],
                           parse_cover_record(n.res.v.v))

\* parse_cover's match on the record pulled from the parser (lines 81-86);
\* n is what p.next_record() gave.
parse_cover_match(self, n) ==
    IF IsNone(n.res)
    THEN [self |-> [self EXCEPT !.csv_parser = Some(n.p)],
          res |-> Err(<<"No cover line">>)]
    ELSE IF IsErr(n.res.v)
    THEN [self |-> [self EXCEPT !.csv_parser = Some(n.p)], res |-> n.res.v]
    ELSE parse_cover_store([self EXCEPT !.csv_parser = Some(n.p)],
                           parse_cover_record(n.res.v.v))

\* parse_cover after its make_csv_parser call (lines 79-81)
parse_cover_pull(m) ==
    IF IsPanic(m.res) \/ IsErr(m.res)
    THEN m
    ELSE IF IsNone(m.self.csv_parser)
    THEN [self |-> m.self, res |-> Panic("No row parser")]
    ELSE parse_cover_match(m.self, CsvParser_next_record(m.self.csv_parser.v))

\* A parse_cover without the early return on a cached cover
parse_cover_nocache(self) == parse_cover_pull(make_csv_parser(self))

\* FecFile::parse_cover(&mut self): Result<(), String>
parse_cover(self) ==
    IF IsSome(self.cover)
    THEN [self |-> self, res |-> Ok(Unit)]
    ELSE parse_cover_pull(make_csv_parser(self))

\* get_header after its parse_header call (lines 46-47)
get_header_ref(h) ==
    IF IsPanic(h.res) \/ IsErr(h.res)
    THEN h
    ELSE IF IsNone(h.self.header)
    THEN [self |-> h.self, res |-> Panic("header should be set")]
    ELSE [self |-> h.self, res |-> Ok(h.self.header.v)]

\* FecFile::get_header(&mut self): Result<&Header, HeaderParseError>
get_header(self) == get_header_ref(parse_header(self))

\* get_cover after its parse_cover call (lines 52-53)
get_cover_ref(c) ==
    IF IsPanic(c.res) \/ IsErr(c.res)
    THEN c
    ELSE IF IsNone(c.self.cover)
    THEN [self |-> c.self, res |-> Panic("cover should be set")]
    ELSE [self |-> c.self, res |-> Ok(c.self.cover.v)]

\* FecFile::get_cover(&mut self): Result<&Cover, String>
get_cover(self) == get_cover_ref(parse_cover(self))

\* next_record's return of p.next_record() (line 59); n is what it gave.
next_record_wrap(self, n) ==
    [self |-> [self EXCEPT !.csv_parser = Some(n.p)], res |-> Ok(n.res)]

\* next_record after its parse_cover call (lines 57-59)
next_record_pull(c) ==
    IF IsPanic(c.res) \/ IsErr(c.res)
    THEN c
    ELSE IF IsNone(c.self.csv_parser)
    THEN [self |-> c.self, res |-> Panic("No row parser")]
    ELSE next_record_wrap(c.self, CsvParser_next_record(c.self.csv_parser.v))

\* FecFile::next_record(&mut self): Result<Option<Result<Record, String>>, String>
next_record(self) == next_record_pull(parse_cover(self))

-----------------------------------------------------------------------------
(* parser.rs: the Parser orchestrator *)

\* Parser::from_reader
Parser_from_reader(rd) ==
    [reader |-> Some(rd), header_parsing |-> None, row_parser |-> None]

\* Parser::parse_header after the header decoder ran (lines 32-35)
Parser_parse_header_store(self, header_parsing) ==
    IF IsErr(header_parsing.res)
    THEN [self |-> [self EXCEPT !.reader = Some(header_parsing.reader)],
          res |-> header_parsing.res]
    ELSE [self |-> [self EXCEPT !.reader = Some(header_parsing.reader),
                                !.header_parsing = Some(header_parsing.res.v)],
          res |-> Ok(header_parsing.res.v)]

\* Parser::parse_header(&mut self): Result<&HeaderParsing, HeaderParseError>
Parser_parse_header(self) ==
    IF IsNone(self.reader)
    THEN [self |-> self, res |-> Panic("No reader")]
    ELSE Parser_parse_header_store(self, header_parse_header(self.reader.v))

\* Parser::next_line's hand-off of the reader to the row parser (lines 39-47):
\* the reader is taken first; header_parsing is unwrapped after that.
Parser_next_line_handoff(self) ==
    IF IsSome(self.row_parser)
    THEN [self |-> self, res |-> Ok(Unit)]
    ELSE IF IsNone(self.reader)
    THEN [self |-> self, res |-> Err(<<"No reader">>)]
    ELSE IF IsNone(self.header_parsing)
    THEN [self |-> [self EXCEPT !.reader = None],
          res |-> Panic("called Option::unwrap() on a None value")]
    ELSE [self |-> [self EXCEPT
                       !.reader = None,
                       !.row_parser =
                           Some(RowsParser_new(self.reader.v,
                                               self.header_parsing.v.header.fec_version,
                                               self.header_parsing.v.sep = Ascii28))],
          res |-> Ok(Unit)]

\* Parser::next_line's return of rp.next_line() (lines 49-50); n is what it gave.
Parser_next_line_wrap(self, n) ==
    [self |-> [self EXCEPT !.row_parser = Some(n.p)], res |-> Ok(n.res)]

\* Parser::next_line after the hand-off (lines 48-50)
Parser_next_line_pull(h) ==
    IF IsPanic(h.res) \/ IsErr(h.res)
    THEN h
    ELSE IF IsNone(h.self.row_parser)
    THEN [self |-> h.self, res |-> Err(<<"No row parser">>)]
    ELSE Parser_next_line_wrap(h.self, next_line(h.self.row_parser.v))

\* Parser::next_line(&mut self): Result<Option<Result<FormLine, String>>, String>
Parser_next_line(self) == Parser_next_line_pull(Parser_next_line_handoff(self))

-----------------------------------------------------------------------------
(* The orchestrator as a state machine: one action per public call *)

\* The registry the files of the model are decoded against.
FecRegistry ==
    [vc \in {<<"5.0", "F3">>, <<"5.0", "SA">>, <<"8.3", "F3">>} |->
        IF vc[2] = "F3"
        THEN LineSchema("F3", <<FieldSchema("amount", "Integer")>>)
        ELSE LineSchema("SA", <<FieldSchema("amount", "Integer"),
                                FieldSchema("memo", "String")>>)]

Self ==
    [reader |-> reader, header |-> header, cover |-> cover, sep |-> sep,
     csv_parser |-> csv_parser]

Store(self) ==
    /\ reader' = self.reader
    /\ header' = self.header
    /\ cover' = self.cover
    /\ sep' = self.sep
    /\ csv_parser' = self.csv_parser

\* Lines of the source consumed so far, by whichever component holds it.
Consumed(self) ==
    IF IsSome(self.reader)
    THEN self.reader.v.pos
    ELSE IF IsSome(self.csv_parser) THEN self.csv_parser.v.records.pos ELSE 0

\* The call op on `self` runs the header step and the header step fails.
HeaderFails(op, self) ==
    /\ IsNone(self.header)
    /\ op = "get_header" \/ (IsNone(self.cover) /\ IsNone(self.csv_parser))
    /\ IsErr(parse_header(self).res)

\* The body call on `self` runs the cover step and the cover step fails.
CoverFails(self) ==
    /\ IsNone(self.cover)
    /\ IsOk(make_csv_parser(self).res)
    /\ IsErr(parse_cover(self).res)

NoInput == [version |-> "", raw |-> <<>>]
NoOutput == [via |-> "none"]

\* What the calls made so far have shown. `prev` holds what had been shown
\* before the last call, so that a state tells what the last call changed.
NoPrev ==
    [header_failed |-> FALSE, cover_failed |-> FALSE, eos |-> FALSE,
     first_header |-> None, body_calls |-> FALSE, consumed |-> 0,
     last_next |-> None, op |-> "new"]

InitHist ==
    [header_failed |-> FALSE,   \* a call has failed in the header step
     cover_failed |-> FALSE,    \* a call has failed in the cover step
     eos |-> FALSE,             \* next_record has returned end-of-sequence
     first_header |-> None,     \* the header of the first Ok of get_header
     body_calls |-> FALSE,      \* get_cover or next_record has been called
     body_start |-> 0,          \* lines consumed when the tokenizer was made
     cover_at |-> 0,            \* line the cached Cover was decoded from
     n_some |-> 0,              \* next_record calls that returned Some
     last_next |-> None,        \* what the last next_record call returned
     late_move |-> FALSE,       \* the tokenizer was made by a body call after the first
     prev |-> NoPrev]

\* The observations after the call op, made on `self`, returned r.
Observe(op, self, r) ==
    [header_failed |-> hist.header_failed \/ HeaderFails(op, self),
     cover_failed |-> hist.cover_failed \/ (op # "get_header" /\ CoverFails(self)),
     eos |-> hist.eos \/ (op = "next_record" /\ IsOk(r.res) /\ IsNone(r.res.v)),
     first_header |->
        IF op = "get_header" /\ IsOk(r.res) /\ IsNone(hist.first_header)
        THEN Some(r.res.v)
        ELSE hist.first_header,
     body_calls |-> hist.body_calls \/ op # "get_header",
     body_start |->
        IF IsNone(self.csv_parser) /\ IsSome(r.self.csv_parser)
        THEN make_csv_parser(self).self.csv_parser.v.records.pos
        ELSE hist.body_start,
     cover_at |->
        IF IsNone(self.cover) /\ IsSome(r.self.cover)
        THEN parse_cover(self).self.csv_parser.v.records.pos
        ELSE hist.cover_at,
     n_some |->
        IF op = "next_record" /\ IsOk(r.res) /\ IsSome(r.res.v)
        THEN hist.n_some + 1
        ELSE hist.n_some,
     last_next |-> IF op = "next_record" THEN Some(r.res) ELSE hist.last_next,
     late_move |->
        \/ hist.late_move
        \/ (IsNone(self.csv_parser) /\ IsSome(r.self.csv_parser) /\ hist.body_calls),
     prev |->
        [header_failed |-> hist.header_failed, cover_failed |-> hist.cover_failed,
         eos |-> hist.eos, first_header |-> hist.first_header,
         body_calls |-> hist.body_calls, consumed |-> Consumed(self),
         last_next |-> hist.last_next, op |-> ret.op]]

Call(op, r) ==
    /\ Store(r.self)
    /\ ret' = [op |-> op, res |-> r.res]
    /\ hist' = Observe(op, Self, r)
    /\ UNCHANGED <<source, registry, parser, dec_in, dec_out>>

GetHeader ==
    /\ dec_out = NoOutput
    /\ Call("get_header", get_header(Self))

GetCover ==
    /\ dec_out = NoOutput
    /\ Call("get_cover", get_cover(Self))

NextRecord ==
    /\ dec_out = NoOutput
    /\ Call("next_record", next_record(Self))

Init ==
    /\ source \in Sources
    /\ registry = FecRegistry
    /\ reader = from_reader(Reader(0)).reader
    /\ header = from_reader(Reader(0)).header
    /\ cover = from_reader(Reader(0)).cover
    /\ sep = from_reader(Reader(0)).sep
    /\ csv_parser = from_reader(Reader(0)).csv_parser
    /\ parser = Parser_from_reader(Reader(0))
    /\ ret = [op |-> "new", res |-> Ok(Unit)]
    /\ hist = InitHist
    /\ dec_in = NoInput
    /\ dec_out = NoOutput

Next == GetHeader \/ GetCover \/ NextRecord

Spec == Init /\ [][Next]_vars

-----------------------------------------------------------------------------
(* The record decoders as functions of their input *)

\* The format versions given to the decoders
Versions == {"5.0", "8.3"}

\* The texts a raw record of the decoders' input starts with
CodeTexts == {"A", "B", "<ff>"}

\* The texts of the other raw fields
FieldTexts == {"7", "1.5", "true", "<ff>"}

\* The raw records given to the decoders: none or a type code, then fields
RawRecords ==
    {<<>>} \cup {<<c>> \o r : c \in CodeTexts, r \in SeqsUpTo(FieldTexts, MaxRawLen - 1)}

\* The schema whose fields have the types ts, in order
SchemaFields(ts) == [i \in 1..Len(ts) |-> FieldSchema("f" \o ToString(i), ts[i])]

\* A registry that knows code A in both versions and code B in version 5.0,
\* each with fields of the types ts.
DecRegistry(ts) ==
    [vc \in {<<"5.0", "A">>, <<"8.3", "A">>, <<"5.0", "B">>} |->
        LineSchema(vc[2], SchemaFields(ts))]

\* raw is an iterator of &str: every field is valid text
IsText(raw) == \A i \in 1..Len(raw) : raw[i] \notin InvalidUtf8

\* line.rs parse runs on the input
Parse ==
    /\ dec_out = NoOutput
    /\ dec_in # NoInput
    /\ IsText(dec_in.raw)
    /\ dec_out' = [via |-> "parse", res |-> parse(dec_in.version, dec_in.raw)]
    /\ UNCHANGED <<source, registry, reader, header, cover, sep, csv_parser, parser,
                   ret, hist, dec_in>>

\* parser.rs parse_csv_record runs on the input
ParseCsvRecord ==
    /\ dec_out = NoOutput
    /\ dec_in # NoInput
    /\ dec_out' = [via |-> "parse_csv_record",
                   res |-> parse_csv_record(dec_in.version, dec_in.raw)]
    /\ UNCHANGED <<source, registry, reader, header, cover, sep, csv_parser, parser,
                   ret, hist, dec_in>>

\* The field names asked of a decoded Line: its schema's, and one it lacks
FieldNames(fields) == {fields[j].name : j \in 1..Len(fields)} \cup {"nope"}

\* Line::get_value runs on the Line that parse gave
GetValue ==
    /\ dec_out.via = "parse"
    /\ IsOk(dec_out.res)
    /\ "got" \notin DOMAIN dec_out
    /\ \E field_name \in FieldNames(dec_out.res.v.schema.fields) :
          dec_out' = [via |-> "parse", res |-> dec_out.res, name |-> field_name,
                      got |-> get_value(dec_out.res.v, field_name)]
    /\ UNCHANGED <<source, registry, reader, header, cover, sep, csv_parser, parser,
                   ret, hist, dec_in>>

InitDecode ==
    /\ source = <<>>
    /\ registry \in {DecRegistry(ts) : ts \in SeqsUpTo(ValueType, MaxSchemaLen)}
    /\ reader = from_reader(Reader(0)).reader
    /\ header = from_reader(Reader(0)).header
    /\ cover = from_reader(Reader(0)).cover
    /\ sep = from_reader(Reader(0)).sep
    /\ csv_parser = from_reader(Reader(0)).csv_parser
    /\ parser = Parser_from_reader(Reader(0))
    /\ ret = [op |-> "new", res |-> Ok(Unit)]
    /\ hist = InitHist
    /\ dec_in \in [version : Versions, raw : RawRecords]
    /\ dec_out = NoOutput

NextDecode == Parse \/ ParseCsvRecord \/ GetValue

SpecDecode == InitDecode /\ [][NextDecode]_vars

-----------------------------------------------------------------------------
(* Claims about the orchestrator, checked under Spec *)

\* The decode of line i of the source as the file's tokenizer and decoder give it.
DecodeAt(i) ==
    parse_csv_record(header.v.fec_version,
                     csv_split(source[i], 1, VersionSep[header.v.fec_version], "start",
                               "", <<>>))

\* What the tokenizer gives for line i: its decode, or None past the last line.
NextAt(i) == IF i <= Len(source) THEN Some(DecodeAt(i)) ELSE None

\* C1: once get_header() has returned Ok(h), every later get_header() returns
\* Ok(h) again and consumes nothing more of the byte source.
C1_HeaderIdempotent ==
    (ret.op = "get_header" /\ IsSome(hist.prev.first_header)) =>
        /\ ret.res = Ok(hist.prev.first_header.v)
        /\ Consumed(Self) = hist.prev.consumed

\* C1 witness: get_header() called again after it returned Ok and after the
\* source has moved into the tokenizer.
C1_Witness ==
    /\ ret.op = "get_header"
    /\ IsSome(hist.prev.first_header)
    /\ IsSome(csv_parser)

\* C2: once a call has failed in the header step, every later call fails, reads
\* no further line of the source, and no tokenizer is constructed.
C2_HeaderFailurePermanent ==
    hist.prev.header_failed =>
        /\ IsErr(ret.res)
        /\ Consumed(Self) = hist.prev.consumed
        /\ IsNone(csv_parser)

\* C3: once a body call has failed in the cover step, every later get_cover()
\* and next_record() fails, and a cached Cover was decoded from body record #1.
C3_CoverFailurePermanent ==
    /\ (hist.prev.cover_failed /\ ret.op \in {"get_cover", "next_record"}) =>
            IsErr(ret.res)
    /\ IsSome(cover) => hist.cover_at = hist.body_start + 1

\* C4: once next_record() has returned end-of-sequence, every later
\* next_record() returns end-of-sequence, whatever calls came in between.
C4_Terminality ==
    (ret.op = "next_record" /\ hist.prev.eos) => (IsOk(ret.res) /\ IsNone(ret.res.v))

\* C4 witness: next_record() called after end-of-sequence was returned and a
\* get_cover() call came in between.
C4_Witness ==
    /\ ret.op = "next_record"
    /\ hist.prev.eos
    /\ hist.prev.op = "get_cover"

\* C5: the i-th next_record() that returns Some yields the decode of the i-th
\* record after the cover record (body record #1) and leaves the tokenizer just
\* after that record: nothing skipped, duplicated or reordered.
C5_Ordering ==
    (ret.op = "next_record" /\ IsOk(ret.res) /\ IsSome(ret.res.v)) =>
        /\ hist.body_start + 1 + hist.n_some <= Len(source)
        /\ ret.res.v.v = DecodeAt(hist.body_start + 1 + hist.n_some)
        /\ Consumed(Self) = hist.body_start + 1 + hist.n_some

\* The last next_record() call failed on decoding the raw record it pulled: a
\* schema miss or a coercion failure, returned inside Some or as the call's error.
DecodeErrors ==
    {"SchemaError", "invalid digit found in string", "invalid float literal",
     "provided string was not true or false"}

DecodeFailure(res) ==
    \/ IsOk(res) /\ IsSome(res.v) /\ IsErr(res.v.v)
    \/ IsErr(res) /\ res.e[1] \in DecodeErrors

\* C6: when a body record after the cover record fails to decode in
\* next_record(), the next next_record() returns the decode of the raw record
\* that follows it (end-of-sequence when none follows).
C6_FailureIsolation ==
    ( /\ ret.op = "next_record"
      /\ hist.prev.op = "next_record"
      /\ DecodeFailure(hist.prev.last_next.v)
      /\ hist.prev.consumed > hist.body_start + 1 ) =>
        ret.res = Ok(NextAt(hist.prev.consumed + 1))

\* C10: from_reader reads nothing; while only get_header() has been called the
\* orchestrator holds the source, at most the header line has been read, and
\* there is no tokenizer and no cover; the source moves into the tokenizer in
\* the first get_cover() or next_record() call, not in a later one.
C10_Laziness ==
    /\ ret.op = "new" => Consumed(Self) = 0
    /\ ~hist.body_calls =>
            /\ IsSome(reader)
            /\ IsNone(csv_parser)
            /\ IsNone(cover)
            /\ Consumed(Self) <= 1
    /\ ~hist.late_move

\* What holds of the order of the records whatever failed before: the i-th
\* next_record() that returns Some yields the decode of the i-th raw record
\* after the one cached as the cover.
OrderingAfterCover ==
    (ret.op = "next_record" /\ IsOk(ret.res) /\ IsSome(ret.res.v)) =>
        /\ hist.cover_at >= 1 /\ IsSome(cover)
        /\ hist.cover_at + hist.n_some <= Len(source)
        /\ ret.res.v.v = DecodeAt(hist.cover_at + hist.n_some)
        /\ Consumed(Self) = hist.cover_at + hist.n_some

\* What holds of a failing body record whatever failed before: after
\* next_record() returned Ok(Some(Err(..))), the next next_record() returns
\* the decode of the following raw record, or end-of-sequence.
IsolationAfterCover ==
    ( /\ ret.op = "next_record"
      /\ IsSome(hist.prev.last_next)
      /\ IsOk(hist.prev.last_next.v)
      /\ IsSome(hist.prev.last_next.v.v)
      /\ IsErr(hist.prev.last_next.v.v.v) ) =>
        ret.res = Ok(NextAt(hist.prev.consumed + 1))

\* Cover permanence, ordering, isolation and laziness hold on the runs where
\* no header step and no cover step has failed before.
HoldsWithoutEarlierFailure ==
    /\ (~hist.cover_failed /\ ~hist.header_failed) => (C5_Ordering /\ C6_FailureIsolation)
    /\ ~hist.header_failed => C10_Laziness
    /\ (~hist.header_failed /\ ~hist.prev.cover_failed) => C3_CoverFailurePermanent

-----------------------------------------------------------------------------
(* Claims about the record decoders, checked under SpecDecode *)

\* The decoders' input has a type code that the registry knows for the version.
Registered ==
    /\ Len(dec_in.raw) >= 1
    /\ <<dec_in.version, dec_in.raw[1]>> \in DOMAIN registry

\* The schema fields the registry gives for the input's version and type code
InputSchema == registry[<<dec_in.version, dec_in.raw[1]>>].fields

\* The text of the i-th raw field after the type code
FieldText(i) == from_utf8_lossy(dec_in.raw[i + 1])

\* The text can be read as a value of the type
Fits(text, typ) ==
    /\ typ = "Integer" => text \in DOMAIN I64Text
    /\ typ = "Float" => text \in DOMAIN F64Text
    /\ typ = "Boolean" => text \in DOMAIN BoolText

\* Raw fields after the type code that have a schema field at their position
Paired == 1..(IF Len(dec_in.raw) - 1 < Len(InputSchema)
              THEN Len(dec_in.raw) - 1
              ELSE Len(InputSchema))

\* All the values of a decoded record, in order
AllValues ==
    IF dec_out.via = "parse"
    THEN dec_out.res.v.values
    ELSE [i \in 1..Len(dec_out.res.v.fields) |-> dec_out.res.v.fields[i].value]

\* The values decoded from the raw fields after the type code
FieldValues ==
    IF dec_out.via = "parse"
    THEN [i \in 1..(Len(dec_out.res.v.values) - 1) |-> dec_out.res.v.values[i + 1]]
    ELSE AllValues

\* C7: width tolerance. For a registered type code, a raw record whose paired
\* fields fit their types decodes successfully whatever its width; a decoded
\* record with k raw fields after the type code has exactly k values for them,
\* each paired one of its schema field's type and each one beyond the schema a
\* String of the raw text (named "extra"), with nothing filled in for schema
\* fields the record lacks.
C7_WidthTolerance ==
    (dec_out # NoOutput /\ Registered) =>
        /\ (\A i \in Paired : Fits(FieldText(i), InputSchema[i].typ)) => IsOk(dec_out.res)
        /\ IsOk(dec_out.res) =>
            /\ Len(FieldValues) = Len(dec_in.raw) - 1
            /\ \A i \in Paired : FieldValues[i].tag = InputSchema[i].typ
            /\ \A i \in 1..Len(FieldValues) :
                 i > Len(InputSchema) =>
                    /\ FieldValues[i] = [tag |-> "String", x |-> FieldText(i)]
                    /\ dec_out.via = "parse_csv_record" =>
                          dec_out.res.v.fields[i].name = "extra"

\* C7 witness: a schema of 2 fields and a raw record X, v1, v2, v3 decoded by
\* line.rs parse.
C7_Witness ==
    /\ dec_out.via = "parse"
    /\ Registered
    /\ Len(InputSchema) = 2
    /\ Len(dec_in.raw) = 4
    /\ IsOk(dec_out.res)

\* C8: a decoded record holds one value per raw field, the type code first, and
\* its schema is the one looked up under the type code.
C8_TypeCodeStored ==
    (dec_out # NoOutput /\ IsOk(dec_out.res)) =>
        /\ Len(AllValues) = Len(dec_in.raw)
        /\ AllValues[1] = [tag |-> "String", x |-> dec_in.raw[1]]
        /\ Registered

\* Some paired raw field fails the coercion to its Integer, Float or Boolean type.
CoercionFails ==
    \E i \in Paired :
        /\ InputSchema[i].typ \in {"Integer", "Float", "Boolean"}
        /\ ~Fits(FieldText(i), InputSchema[i].typ)

\* C9 as claimed: parse returns Err if and only if the schema lookup misses or
\* a paired field fails its coercion.
C9_ErrIffMissOrCoercion ==
    dec_out.via = "parse" =>
        (IsErr(dec_out.res) <=>
            \/ Len(dec_in.raw) >= 1 /\ ~Registered
            \/ Registered /\ CoercionFails)

\* C9 amended: parse returns Err if and only if the raw record has no field at
\* all (no type code), the schema lookup misses, or a paired field fails its
\* coercion; never for the record's width or a field beyond the schema.
C9_ErrIffEmptyMissOrCoercion ==
    dec_out.via = "parse" =>
        (IsErr(dec_out.res) <=>
            \/ Len(dec_in.raw) = 0
            \/ Len(dec_in.raw) >= 1 /\ ~Registered
            \/ Registered /\ CoercionFails)

\* C9 witness: a record longer than its schema whose fields beyond the schema
\* would fail a numeric or boolean coercion, decoded by parse.
C9_Witness ==
    /\ dec_out.via = "parse"
    /\ Registered
    /\ Len(dec_in.raw) - 1 > Len(InputSchema)
    /\ Len(InputSchema) >= 1
    /\ IsOk(dec_out.res)

-----------------------------------------------------------------------------
(* Claims about the orchestrator's caches and ownership, checked under Spec *)

\* The Cover was cached before the last call, not by it.
CoverWasCached == IsSome(cover) /\ hist.cover_at <= hist.prev.consumed

\* C11: a cached Cover is computed once: a later get_cover() returns it and
\* consumes no body record; the Cover is body record #1 and the first
\* next_record() that yields a record yields body record #2; with a Cover
\* cached the body records consumed are 1 plus the next_record() calls that
\* returned Some.
C11_CoverOnce ==
    /\ (ret.op = "get_cover" /\ CoverWasCached) =>
          /\ ret.res = Ok(cover.v)
          /\ Consumed(Self) = hist.prev.consumed
    /\ (ret.op = "next_record" /\ IsOk(ret.res) /\ IsSome(ret.res.v) /\ hist.n_some = 1) =>
          ret.res.v.v = DecodeAt(hist.body_start + 2)
    /\ IsSome(cover) => Consumed(Self) - hist.body_start = 1 + hist.n_some

\* What holds of the cached Cover whatever failed before: a later get_cover()
\* returns it and consumes nothing, and the records consumed after the one
\* cached as the Cover are the next_record() calls that returned Some.
CoverOnceAfterCover ==
    /\ (ret.op = "get_cover" /\ CoverWasCached) =>
          /\ ret.res = Ok(cover.v)
          /\ Consumed(Self) = hist.prev.consumed
    /\ IsSome(cover) => Consumed(Self) - hist.cover_at = hist.n_some
    /\ (~hist.cover_failed /\ ~hist.header_failed) => C11_CoverOnce

-----------------------------------------------------------------------------
(* Dialect selection, checked under SpecDialect: files of a header line, a *)
(* cover record and one body record made of chunks that include the two    *)
(* separators and the quote character.                                     *)

\* most chunks a body record of the dialect files holds after its type code
MaxChunks == 4

\* The chunks of a body record after its type code
Chunks == {Comma, Ascii28, Quote, "a"}

\* The mode the csv reader is in after the chunk ch read in mode `mode`
csv_next_mode(mode, ch, delim) ==
    CASE mode = "start" /\ ch = Quote -> "quoted"
      [] mode = "quoted" /\ ch = Quote -> "closed"
      [] mode = "quoted" /\ ch # Quote -> "quoted"
      [] mode = "closed" /\ ch = Quote -> "quoted"
      [] mode # "quoted" /\ ch = delim -> "start"
      [] OTHER -> "field"

\* The mode the csv reader is in before it reads chunk i of the line
RECURSIVE csv_mode_at(_, _, _)
csv_mode_at(line, i, delim) ==
    IF i = 1
    THEN "start"
    ELSE csv_next_mode(csv_mode_at(line, i - 1, delim), line[i - 1], delim)

\* Every quoted field of the line is closed on the line, in both dialects, so
\* that the record ends where the line ends.
ClosedOnLine(line) ==
    \A d \in {Comma, Ascii28} : csv_mode_at(line, Len(line) + 1, d) # "quoted"

\* The body records of the dialect files: type code F3, then chunks
DialectLines ==
    {l \in {<<"F3">> \o r : r \in SeqsUpTo(Chunks, MaxChunks)} : ClosedOnLine(l)}

\* The dialect files: a header of either version, the cover record, a record
DialectSources ==
    {<<h, <<"F3">>, l>> : h \in {<<"HDR", ",", "5.0">>, <<"HDR", ",", "8.3">>},
                          l \in DialectLines}

\* A registry whose F3 records have one String field in both versions
DialectRegistry ==
    [vc \in {<<"5.0", "F3">>, <<"8.3", "F3">>} |->
        LineSchema("F3", <<FieldSchema("memo", "String")>>)]

InitDialect ==
    /\ source \in DialectSources
    /\ registry = DialectRegistry
    /\ reader = from_reader(Reader(0)).reader
    /\ header = from_reader(Reader(0)).header
    /\ cover = from_reader(Reader(0)).cover
    /\ sep = from_reader(Reader(0)).sep
    /\ csv_parser = from_reader(Reader(0)).csv_parser
    /\ parser = Parser_from_reader(Reader(0))
    /\ ret = [op |-> "new", res |-> Ok(Unit)]
    /\ hist = InitHist
    /\ dec_in = NoInput
    /\ dec_out = NoOutput

SpecDialect == InitDialect /\ [][Next]_vars

\* The positions of the line that hold the chunk d
Positions(line, d) == {i \in 1..Len(line) : line[i] = d}

\* The positions of the line that hold the chunk d outside a quoted field
UnquotedPositions(line, d) ==
    {i \in Positions(line, d) : csv_mode_at(line, i, d) # "quoted"}

\* The last call was a next_record() that yielded a decoded record.
YieldedRecord ==
    /\ ret.op = "next_record"
    /\ IsOk(ret.res)
    /\ IsSome(ret.res.v)
    /\ IsOk(ret.res.v.v)

\* The tokenizer, once made, has the separator and version of the cached header.
TokenizerOfHeader ==
    IsSome(csv_parser) =>
        /\ IsSome(header) /\ IsSome(sep)
        /\ sep.v = VersionSep[header.v.fec_version]
        /\ csv_parser.v.delim = sep.v
        /\ csv_parser.v.version = header.v.fec_version

\* C12: the tokenizer is made with the separator the header decoder derived
\* from the header's version; under the control-byte dialect no comma splits a
\* field and under the comma dialect every comma is a field boundary: a
\* yielded record has one raw field more than its line has separators.
C12_DialectSelection ==
    /\ TokenizerOfHeader
    /\ YieldedRecord =>
          Len(ret.res.v.v.v.fields) =
              Cardinality(Positions(source[Consumed(Self)], csv_parser.v.delim))

\* What holds of the dialects: the tokenizer has the header's separator, no
\* chunk other than that separator is a field boundary, and every such
\* separator outside a quoted field is one.
DialectOutsideQuotes ==
    /\ TokenizerOfHeader
    /\ YieldedRecord =>
          Len(ret.res.v.v.v.fields) =
              Cardinality(UnquotedPositions(source[Consumed(Self)], csv_parser.v.delim))

-----------------------------------------------------------------------------
(* Claims about the orchestrator's results and fields, checked under Spec *)

\* The file's first line is a header that parses and no line follows it.
EmptyBody ==
    /\ Len(source) = 1
    /\ IsOk(header_decode(split(source[1], 1, HeaderDelim, "", <<>>)))

\* C13 as claimed: on a file whose header parses and whose body has no record,
\* get_cover() fails with a cover-decode error without a Cover or a panic, and
\* next_record() gives Some(Ok), Some(Err) or None, and nothing else.
C13_EmptyBodyOutcomes ==
    EmptyBody =>
        /\ IsNone(cover)
        /\ ~IsPanic(ret.res)
        /\ ret.op = "get_cover" => ret.res = Err(<<"No cover line">>)
        /\ ret.op = "next_record" => IsOk(ret.res)

\* C13 amended: on such a file get_cover() and next_record() both fail with
\* the cover-decode error "No cover line", on every call; no Cover is cached
\* and nothing panics.
C13_EmptyBodyFails ==
    EmptyBody =>
        /\ IsNone(cover)
        /\ ~IsPanic(ret.res)
        /\ ret.op \in {"get_cover", "next_record"} => ret.res = Err(<<"No cover line">>)
        /\ ret.op = "get_header" => IsOk(ret.res)

\* C13 witness: on an empty body, next_record() called after a get_cover()
\* that failed.
C13_Witness ==
    /\ EmptyBody
    /\ ret.op = "next_record"
    /\ hist.prev.op = "get_cover"
    /\ IsErr(ret.res)

\* Exactly one of reader and csv_parser holds the byte source.
OneOwner == IsSome(reader) # IsSome(csv_parser)

\* Once the source is in the tokenizer it stays there.
OwnerStays == IsSome(csv_parser) => (IsSome(csv_parser') /\ IsNone(reader'))

\* C14: in every reachable state exactly one of reader and csv_parser holds
\* the source, and once the source has moved into the tokenizer reader stays
\* None and csv_parser stays Some, whatever the later calls return.
C14_ExclusiveOwnership == OneOwner /\ [][OneOwner' /\ OwnerStays]_vars

\* C14 witness: the source is in the tokenizer and a call made after the move
\* has failed.
C14_Witness ==
    /\ IsSome(csv_parser)
    /\ IsNone(reader)
    /\ hist.prev.body_calls
    /\ hist.prev.consumed >= 2
    /\ IsErr(ret.res)

\* No stage is cached without its predecessor.
NoSkip ==
    /\ IsSome(cover) => IsSome(csv_parser)
    /\ IsSome(csv_parser) => (IsSome(header) /\ IsSome(sep))
    /\ IsSome(header) <=> IsSome(sep)

\* What is cached stays cached and unchanged; the tokenizer stays the one
\* that was built (same version and delimiter) and only reads forward.
NoWayBack ==
    /\ IsSome(header) => header' = header
    /\ IsSome(sep) => sep' = sep
    /\ IsSome(cover) => cover' = cover
    /\ IsSome(csv_parser) =>
          /\ IsSome(csv_parser')
          /\ csv_parser'.v.version = csv_parser.v.version
          /\ csv_parser'.v.delim = csv_parser.v.delim
          /\ csv_parser'.v.records.pos >= csv_parser.v.records.pos

\* C15: the progression never skips a predecessor and never goes backwards:
\* cover cached implies tokenizer built, tokenizer built implies header and
\* separator cached, header cached iff separator cached, and none of them is
\* ever reset or replaced once set.
C15_StateProgression == NoSkip /\ [][NoSkip' /\ NoWayBack]_vars

\* C15 witness: all four are set and a further call has been made on them.
C15_Witness ==
    /\ IsSome(header) /\ IsSome(sep) /\ IsSome(csv_parser) /\ IsSome(cover)
    /\ CoverWasCached

\* C16: no sequence of get_header, get_cover and next_record calls, failed
\* ones included, ends in a panic or expect failure, or returns
\* make_csv_parser's "No reader" error.
C16_NoProgrammerError ==
    /\ ~IsPanic(ret.res)
    /\ ret.res # Err(<<"No reader">>)

\* C16 witness: a call that succeeds after both a header step and a cover
\* step have failed, with the source in the tokenizer.
C16_Witness ==
    /\ hist.header_failed
    /\ hist.cover_failed
    /\ IsNone(reader)
    /\ ret.op = "get_cover"
    /\ IsOk(ret.res)

-----------------------------------------------------------------------------
(* The Parser orchestrator of parser.rs as a state machine, and its claim *)

\* A call of the Parser returned r. A panic ends the program: no call follows.
ParserCall(op, r) ==
    /\ ~IsPanic(ret.res)
    /\ parser' = r.self
    /\ ret' = [op |-> op, res |-> r.res]
    /\ UNCHANGED <<source, registry, reader, header, cover, sep, csv_parser, hist,
                   dec_in, dec_out>>

ParserParseHeader == ParserCall("parse_header", Parser_parse_header(parser))

ParserNextLine == ParserCall("next_line", Parser_next_line(parser))

InitParser == Init

NextParser == ParserParseHeader \/ ParserNextLine

SpecParser == InitParser /\ [][NextParser]_vars

\* C17: no sequence of parse_header and next_line calls on a Parser panics,
\* or leaves the Parser without the byte source and without a row parser.
C17_ParserNoFatal ==
    /\ ~IsPanic(ret.res)
    /\ IsNone(parser.reader) => IsSome(parser.row_parser)

-----------------------------------------------------------------------------
(* Claims about invalid text and lookup by name, checked under SpecDecode *)

\* The raw record with every field's invalid bytes substituted
Substituted(raw) == [i \in 1..Len(raw) |-> from_utf8_lossy(raw[i])]

\* C18: bytes that are not valid text never fail a record: every field, the
\* type code included, is decoded with lossy substitution, so the outcome of a
\* raw record is the outcome of the record with the substituted text.
C18_LossyEverywhere ==
    dec_out.via = "parse_csv_record" =>
        dec_out.res = parse_csv_record(dec_in.version, Substituted(dec_in.raw))

\* What holds of invalid text: when the type code is valid text, the outcome
\* is that of the record with the substituted text in its other fields.
LossyAfterTypeCode ==
    (dec_out.via = "parse_csv_record" /\ Len(dec_in.raw) >= 1
        /\ dec_in.raw[1] \notin InvalidUtf8) =>
        dec_out.res = parse_csv_record(dec_in.version, Substituted(dec_in.raw))

\* The schema field the last get_value asked for by name, as a position
AskedField ==
    CHOOSE j \in 1..Len(dec_out.res.v.schema.fields) :
        dec_out.res.v.schema.fields[j].name = dec_out.name

\* C19: for a Line that parse produced and a schema field f at position i,
\* get_value(f.name) is the value parse decoded from the raw field it paired
\* with f (raw field i after the type code, coerced to f's type), or None when
\* the raw record is too short to hold that field; never the type code or the
\* value of another schema field.
C19_GetValueAgrees ==
    ("got" \in DOMAIN dec_out /\ dec_out.name # "nope") =>
        dec_out.got =
            IF AskedField + 1 <= Len(dec_in.raw)
            THEN Some(coerce(dec_in.raw[AskedField + 1],
                             dec_out.res.v.schema.fields[AskedField].typ).v)
            ELSE None

\* What holds of get_value: for the schema field at position i it gives the
\* value decoded from raw field i - 1 after the type code, the type code
\* itself for the first schema field; a name the schema lacks gives None.
GetValueOneBefore ==
    "got" \in DOMAIN dec_out =>
        dec_out.got =
            IF dec_out.name = "nope"
            THEN None
            ELSE IF AskedField <= Len(dec_in.raw)
            THEN Some(dec_out.res.v.values[AskedField])
            ELSE None

====
